---- MODULE Spec2Model ----
(***************************************************************************)
(* Model of src/nodes/Discord/bot/helpers.ts: the coordination layer       *)
(* between the n8n plugin process and the Discord bot process.             *)
(*                                                                         *)
(*   Spec         channel calls: connection, execution, ipcRequest and    *)
(*                the list queries of getChannels / getRoles               *)
(*   SpecTrigger  triggerWorkflow                                          *)
(*   SpecLog      addLog                                                   *)
(*   SpecPoll     pollingPromptData                                        *)
(*                                                                         *)
(* Time is a clock in milliseconds.  A timer armed by setTimeout fires     *)
(* once the clock has reached its deadline, and the clock does not move    *)
(* past a deadline whose timer is still armed.                             *)
(***************************************************************************)
EXTENDS Integers, Sequences, FiniteSets, TLC

\* ------------------------------------------------------------- bounds
MaxCalls == 2
ClockStep == 15000
MaxTime == 15000
MaxDispatches == 2
MaxLogCalls == 102
MaxLoops == 2
MaxSeconds == 3
MaxTicks == 4
MaxResolvers == 1
MaxPlaceholders == 2
MaxEdits == 5
MaxInstances == 2

\* ---------------------------------------------------- program constants
ConnTimeout == 15000
ExecTimeout == 15000
ListTimeout == 5000
LogLimit == 99
PollInterval == 1000
LoadInterval == 800

VARIABLES
    calls,      \* the promises made by connection / execution / ipcRequest
    listeners,  \* ipc.of.bot.on registrations, in registration order
    emitted,    \* ipc.of.bot.emit calls of the channel calls, in order
    connects,   \* number of ipc.connectTo calls made by the channel calls
    invoked,    \* the listeners run by the latest message, in the order run
    now,        \* the clock, in ms
    triggers,   \* state.triggers
    testMode,   \* state.testMode
    dispatches, \* the triggerWorkflow calls
    triggerMsgs, \* the 'trigger' messages emitted, in order
    logs,       \* state.logs
    logCalls,   \* number of addLog calls so far (the clock of new Date())
    ready,      \* state.ready
    autoLogs,   \* state.autoLogs
    mirrored,   \* the last log line sent to the auto-log channel
    loops,      \* the pollingPromptData calls
    promptValue, \* whether state.promptData[id].value is set (truthy)
    everSet,    \* whether state.promptData[id].value was ever set
    resolvers,  \* the getChannels / getRoles calls
    placeholders,           \* the placeholderLoading loops
    placeholderMatching,    \* state.placeholderMatching: id -> entry present
    lateConnects    \* the calls whose connection callback ran after they had settled

ipcVars == <<calls, listeners, emitted, connects, invoked, now>>

triggerVars == <<triggers, testMode, dispatches, triggerMsgs>>

logVars == <<logs, logCalls, ready, autoLogs, mirrored>>

pollVars == <<loops, promptValue, everSet>>

resolverVars == <<resolvers>>

loadingVars == <<placeholders, placeholderMatching>>

lateVars == <<lateConnects>>

vars == <<ipcVars, triggerVars, logVars, pollVars, resolverVars, loadingVars, lateVars>>

\* What the channel calls leave alone, apart from the resolver that may
\* have made them.
otherThanIpc == <<triggerVars, logVars, pollVars, loadingVars>>

otherThanTrigger == <<ipcVars, logVars, pollVars, resolverVars, loadingVars, lateVars>>

otherThanLog == <<ipcVars, triggerVars, pollVars, resolverVars, loadingVars, lateVars>>

otherThanPoll == <<ipcVars, triggerVars, logVars, resolverVars, loadingVars, lateVars>>

otherThanLoading == <<ipcVars, triggerVars, logVars, pollVars, resolverVars, lateVars>>

\* ------------------------------------------------------------ helpers
Range(s) == {s[i] : i \in DOMAIN s}

IsPrefix(s, t) == Len(s) <= Len(t) /\ SubSeq(t, 1, Len(s)) = s

\* Position of the first occurrence of x in s, 0 when absent.
RECURSIVE IndexFrom(_, _, _)
IndexFrom(s, x, i) ==
    IF i > Len(s) THEN 0
    ELSE IF s[i] = x THEN i
    ELSE IndexFrom(s, x, i + 1)

IndexOf(s, x) == IndexFrom(s, x, 1)

Min(a, b) == IF a < b THEN a ELSE b

\* ---------------------------------------------------------- credentials
\* ICredentials as handed to connection(); present = FALSE is an absent
\* (null / undefined) value, "" an empty or missing field.
NoCredentials == [present |-> FALSE, clientId |-> "", token |-> ""]

CredentialValues ==
    {NoCredentials,
     [present |-> TRUE, clientId |-> "", token |-> ""],
     [present |-> TRUE, clientId |-> "", token |-> "tok"],
     [present |-> TRUE, clientId |-> "id", token |-> ""],
     [present |-> TRUE, clientId |-> "id", token |-> "tok"]}

\* Variant of CredMissing that leaves out the clientId test.
CredMissingNoClientId(credentials) ==
    ~credentials.present \/ credentials.token = ""

\* !credentials || !credentials.token || !credentials.clientId
CredMissing(credentials) ==
    ~credentials.present \/ credentials.token = "" \/ credentials.clientId = ""

\* --------------------------------------------------------------- types
NoData == "-"

\* What the bot may answer to 'credentials'; "other" is any unrecognised
\* string.
Responses == {"ready", "already", "error", "login", "different", "other"}

\* What the bot may answer to a list query: a falsy value, an empty array,
\* a non-empty array, a value that is no array.
ListReplies == {"", "[]", "[a,b]", "{}"}

\* The replies to 'list:roles' with the role '@everyone' among them.
RoleReplies == ListReplies \cup {"[@everyone]", "[@everyone,a]"}

\* A reply as JavaScript sees it: truthy or not, an array or not, and the
\* names of its entries.
Truthy(data) == data # ""

IsArray(data) == data \in {"[]", "[a,b]", "[@everyone]", "[@everyone,a]"}

Items(data) ==
    CASE data = "[a,b]" -> <<"a", "b">>
      [] data = "[@everyone]" -> <<"@everyone">>
      [] data = "[@everyone,a]" -> <<"@everyone", "a">>
      [] OTHER -> <<>>

IpcTypes == {"send:message"}

ListTypes == {"list:channels", "list:roles"}

Types == {"credentials", "execution"} \cup IpcTypes \cup ListTypes

\* The payloads a message of type t may carry.
DataOf(t) ==
    IF t = "credentials" THEN Responses
    ELSE IF t \in ListTypes THEN ListReplies
    ELSE IF t = "execution" THEN {"ack"}
    ELSE {"sent", "failed"}

\* The payloads the resolvers may be answered with.
RepliesOf(t) == IF t = "list:roles" THEN RoleReplies ELSE DataOf(t)

NoPayload == NoCredentials

\* ------------------------------------------------------ promise settling
\* Variant of Settle: a later resolve / reject overwrites the outcome.
SettleAgain(call, st, v) == [call EXCEPT !.status = st, !.value = v]

\* resolve / reject of an already settled promise does nothing.
Settle(call, st, v) ==
    IF call.status = "pending"
    THEN [call EXCEPT !.status = st, !.value = v]
    ELSE call

\* Variant of ClearTimeout: a listener that leaves the timer running.
KeepTimer(timer) == timer

\* clearTimeout: cancels an armed timer, no effect on a fired one.
ClearTimeout(timer) == IF timer = "armed" THEN "cleared" ELSE timer

\* Variant of ConnOutcome with the suffix on 'login' instead of 'different'.
ConnOutcomeSwapped(data) ==
    IF data \in {"error", "login", "different"}
    THEN [status |-> "rejected",
          value |-> IF data = "error" THEN "Invalid credentials"
                    ELSE IF data = "login"
                         THEN "Already logging in with different credentials"
                         ELSE "Already logging in"]
    ELSE [status |-> "resolved", value |-> data]

\* The classification of the 'credentials' listener.
ConnOutcome(data) ==
    IF data \in {"error", "login", "different"}
    THEN [status |-> "rejected",
          value |-> IF data = "error" THEN "Invalid credentials"
                    ELSE IF data = "different"
                         THEN "Already logging in with different credentials"
                         ELSE "Already logging in"]
    ELSE [status |-> "resolved", value |-> data]

\* One call's listener, run on a message `data` of its type.
Listener(call, data) ==
    LET seen == [call EXCEPT !.first = IF @ = NoData THEN data ELSE @]
    IN  CASE call.kind = "connection" ->
                Settle([seen EXCEPT !.timer = ClearTimeout(@)],
                       ConnOutcome(data).status, ConnOutcome(data).value)
          [] call.kind = "execution" ->
                Settle([seen EXCEPT !.timer = ClearTimeout(@)], "resolved", "true")
          [] call.kind = "listQuery" ->
                Settle([seen EXCEPT !.timer = ClearTimeout(@)], "resolved", data)
          [] OTHER ->
                Settle(seen, "resolved", data)

\* Variant of InvokeOrder: a message consumed by the first listener.
FirstListenerOnly(ls) == IF ls = <<>> THEN <<>> ELSE <<Head(ls)>>

\* The listeners a message of type t reaches, in the order they are run:
\* all of them, in registration order.
InvokeOrder(ls) == ls

ListenersOf(t) == InvokeOrder(SelectSeq(listeners, LAMBDA c : calls[c].type = t))

\* Variant of ListenersAfterTimeout: a timeout that deregisters its listener.
DropListener(ls, c) == SelectSeq(ls, LAMBDA x : x # c)

\* What the timeout callback leaves of the listener registrations: it only
\* settles the promise.
ListenersAfterTimeout(ls, c) == ls

NewCall(kind, type, payload) ==
    [kind |-> kind, type |-> type, payload |-> payload,
     status |-> "pending", value |-> NoData, first |-> NoData,
     timer |-> "none", start |-> now, deadline |-> 0, cb |-> "none"]

\* What the timer of a call does when it fires.
TimeoutOutcome(call) ==
    IF call.kind = "listQuery"
    THEN [status |-> "resolved", value |-> ""]
    ELSE [status |-> "rejected", value |-> "timeout"]

\* getChannels / getRoles go on to their list query only when connection()
\* returned 'ready' or 'already'.
Negotiated ==
    \E c \in DOMAIN calls :
        /\ calls[c].kind = "connection"
        /\ calls[c].status = "resolved"
        /\ calls[c].value \in {"ready", "already"}

\* ------------------------------------------------------------- actions
\* connection(credentials)
Connection(credentials) ==
    /\ Len(calls) < MaxCalls
    /\ IF CredMissing(credentials)
       THEN /\ calls' = Append(calls,
                   Settle(NewCall("connection", "credentials", credentials),
                          "rejected", "credentials missing"))
            /\ UNCHANGED connects
       ELSE /\ calls' = Append(calls,
                   [NewCall("connection", "credentials", credentials)
                       EXCEPT !.timer = "armed",
                              !.deadline = now + ConnTimeout,
                              !.cb = "waiting"])
            /\ connects' = connects + 1
    /\ UNCHANGED <<listeners, emitted, invoked, now>>
    /\ UNCHANGED otherThanIpc

\* execution(executionId, placeholderId, channelId, apiKey, userId)
Execution ==
    /\ Len(calls) < MaxCalls
    /\ calls' = Append(calls,
           [NewCall("execution", "execution", NoPayload)
               EXCEPT !.timer = "armed",
                      !.deadline = now + ExecTimeout,
                      !.cb = "waiting"])
    /\ connects' = connects + 1
    /\ UNCHANGED <<listeners, emitted, invoked, now>>
    /\ UNCHANGED otherThanIpc

\* ipcRequest(type, parameters)
IpcRequest(type) ==
    /\ Len(calls) < MaxCalls
    /\ calls' = Append(calls, [NewCall("ipcRequest", type, NoPayload)
                                  EXCEPT !.cb = "waiting"])
    /\ connects' = connects + 1
    /\ UNCHANGED <<listeners, emitted, invoked, now>>
    /\ UNCHANGED otherThanIpc

\* channelsRequest() / rolesRequest() of getChannels / getRoles
ListRequest(type) ==
    /\ Len(calls) < MaxCalls
    /\ Negotiated
    /\ calls' = Append(calls,
           [NewCall("listQuery", type, NoPayload)
               EXCEPT !.timer = "armed",
                      !.deadline = now + ListTimeout,
                      !.cb = "waiting"])
    /\ connects' = connects + 1
    /\ UNCHANGED <<listeners, emitted, invoked, now>>
    /\ UNCHANGED otherThanIpc

\* The callback handed to ipc.connectTo('bot', ...): emit, then on.
ConnectCallback(c) ==
    /\ calls[c].cb = "waiting"
    /\ emitted' = Append(emitted, [type |-> calls[c].type, call |-> c,
                                   payload |-> calls[c].payload])
    /\ listeners' = Append(listeners, c)
    /\ calls' = [calls EXCEPT ![c].cb = "ran"]
    /\ UNCHANGED <<connects, invoked, now>>
    /\ UNCHANGED otherThanIpc

\* The callback of setTimeout fires.
TimerFire(c) ==
    /\ calls[c].timer = "armed"
    /\ now >= calls[c].deadline
    /\ calls' = [calls EXCEPT ![c] = Settle([@ EXCEPT !.timer = "fired"],
                                            TimeoutOutcome(@).status,
                                            TimeoutOutcome(@).value)]
    /\ listeners' = ListenersAfterTimeout(listeners, c)
    /\ UNCHANGED <<emitted, connects, invoked, now>>
    /\ UNCHANGED otherThanIpc

\* The bot sends a message of type t: every listener of t runs, in order.
Deliver(t, data) ==
    LET ls == ListenersOf(t)
    IN  /\ ls # <<>>
        /\ calls' = [c \in DOMAIN calls |->
                        IF c \in Range(ls) THEN Listener(calls[c], data)
                        ELSE calls[c]]
        /\ invoked' = ls
        /\ UNCHANGED <<listeners, emitted, connects, now>>
        /\ UNCHANGED otherThanIpc

\* The deadlines of the armed timers.
Armed == {calls[c].deadline : c \in {x \in DOMAIN calls : calls[x].timer = "armed"}}

\* Time passes, up to the earliest deadline of an armed timer.
Tick ==
    /\ now < MaxTime
    /\ \A d \in Armed : now < d
    /\ now' = IF \E d \in Armed : d < now + ClockStep
              THEN CHOOSE d \in Armed : \A e \in Armed : d <= e
              ELSE now + ClockStep
    /\ UNCHANGED <<calls, listeners, emitted, connects, invoked>>
    /\ UNCHANGED otherThanIpc

\* ------------------------------------------------ getChannels / getRoles
EndMessage == " - Close and reopen this node modal once you have made changes."

\* What getCredentials('discordApi').catch((e) => e) may hand on: stored
\* credentials, complete or not, or the error of a failed lookup, an object
\* without clientId and token.
LookupResults == CredentialValues

ListTypeOf(fn) == IF fn = "getChannels" THEN "list:channels" ELSE "list:roles"

Placeholder(message) == <<[name |-> message, value |-> "false"]>>

Options(names) == [i \in 1..Len(names) |-> [name |-> names[i], value |-> names[i]]]

\* ['ready', 'already'].includes(res)
Proceeds(res) == res \in {"ready", "already"}

\* Variant of NotEveryone: no role is filtered out.
EveryoneKept(names) == names

\* roles.filter((r) => r.name !== '@everyone')
NotEveryone(names) == SelectSeq(names, LAMBDA n : n # "@everyone")

\* What getChannels returns for the reply `channels` of its list query.
ChannelsResult(channels) ==
    IF Truthy(channels)
    THEN IF IsArray(channels) /\ Len(Items(channels)) > 0
         THEN Options(Items(channels))
         ELSE Placeholder(
                "Your Discord server has no text channels, please add at least one text channel"
                \o EndMessage)
    ELSE Placeholder("Unexpected error")

\* What getRoles returns for the reply `roles` of its list query.
RolesResult(roles) ==
    IF Truthy(roles)
    THEN IF IsArray(roles)
         THEN IF Len(NotEveryone(Items(roles))) > 0
              THEN Options(NotEveryone(Items(roles)))
              ELSE Placeholder(
                     "Your Discord server has no roles, please add at least one if you want to restrict the trigger to specific users"
                     \o EndMessage)
         ELSE Placeholder("Something went wrong" \o EndMessage)
    ELSE Placeholder("Unexpected error")

\* getChannels(that) / getRoles(that) up to `await connection(credentials)`.
GetOptions(fn, credentials) ==
    /\ Len(resolvers) < MaxResolvers
    /\ Connection(credentials)
    /\ resolvers' = Append(resolvers,
           [fn |-> fn, pc |-> "negotiating", conn |-> Len(calls) + 1,
            query |-> 0, result |-> <<>>])
    /\ UNCHANGED lateVars

\* connection() has settled with something other than 'ready' / 'already':
\* the placeholder made of it is returned.
NegotiationFailed(r) ==
    /\ resolvers[r].pc = "negotiating"
    /\ calls[resolvers[r].conn].status # "pending"
    /\ ~Proceeds(calls[resolvers[r].conn].value)
    /\ resolvers' = [resolvers EXCEPT
           ![r].pc = "done",
           ![r].result = Placeholder(calls[resolvers[r].conn].value \o EndMessage)]
    /\ UNCHANGED <<ipcVars, otherThanIpc, lateVars>>

\* connection() has returned 'ready' / 'already': the list query is made.
QueryList(r) ==
    /\ resolvers[r].pc = "negotiating"
    /\ calls[resolvers[r].conn].status # "pending"
    /\ Proceeds(calls[resolvers[r].conn].value)
    /\ ListRequest(ListTypeOf(resolvers[r].fn))
    /\ resolvers' = [resolvers EXCEPT ![r].pc = "querying",
                                      ![r].query = Len(calls) + 1]
    /\ UNCHANGED lateVars

\* The list query has settled: the options are returned.
QueryDone(r) ==
    /\ resolvers[r].pc = "querying"
    /\ calls[resolvers[r].query].status # "pending"
    /\ resolvers' = [resolvers EXCEPT
           ![r].pc = "done",
           ![r].result = IF resolvers[r].fn = "getChannels"
                         THEN ChannelsResult(calls[resolvers[r].query].value)
                         ELSE RolesResult(calls[resolvers[r].query].value)]
    /\ UNCHANGED <<ipcVars, otherThanIpc, lateVars>>

\* ------------------------------------------------------ triggerWorkflow
Webhooks == {"w1", "w2"}

NoTrigger == [present |-> FALSE, active |-> FALSE]

\* Variant of ShouldDeactivate that leaves out the test-mode test.
DeactivatesInTestMode(webhookId) == triggers[webhookId].present

\* if (state.triggers[webhookId] && !state.testMode)
ShouldDeactivate(webhookId) == triggers[webhookId].present /\ ~testMode

\* Variant of Deactivate: the entry is dropped.
DropEntry(trigger) == NoTrigger

\* Variant of Deactivate: a handler that leaves the record as it is.
KeepActive(trigger) == trigger

\* state.triggers[webhookId].active = false
Deactivate(trigger) == [trigger EXCEPT !.active = FALSE]

\* triggerWorkflow(webhookId, message, placeholderId): the POST is sent.
TriggerWorkflow(webhookId) ==
    /\ Len(dispatches) < MaxDispatches
    /\ dispatches' = Append(dispatches,
           [webhookId |-> webhookId, test |-> testMode, post |-> "pending",
            handled |-> "none", result |-> "none", cb |-> "none"])
    /\ UNCHANGED <<triggers, testMode, triggerMsgs>>
    /\ UNCHANGED otherThanTrigger

\* The POST completes: res is the response and the call returns true.
PostSucceeds(d) ==
    /\ dispatches[d].post = "pending"
    /\ dispatches' = [dispatches EXCEPT ![d].post = "ok", ![d].result = "true"]
    /\ UNCHANGED <<triggers, testMode, triggerMsgs>>
    /\ UNCHANGED otherThanTrigger

\* The POST fails: the catch handler runs, res is undefined and the call
\* returns false.
PostFails(d) ==
    LET webhookId == dispatches[d].webhookId
    IN  /\ dispatches[d].post = "pending"
        /\ IF ShouldDeactivate(webhookId)
           THEN /\ triggers' = [triggers EXCEPT ![webhookId] = Deactivate(@)]
                /\ dispatches' = [dispatches EXCEPT ![d].post = "failed",
                                                    ![d].handled = "deactivated",
                                                    ![d].result = "false",
                                                    ![d].cb = "waiting"]
           ELSE /\ dispatches' = [dispatches EXCEPT ![d].post = "failed",
                                                    ![d].handled = "skipped",
                                                    ![d].result = "false"]
                /\ UNCHANGED triggers
        /\ UNCHANGED <<testMode, triggerMsgs>>
        /\ UNCHANGED otherThanTrigger

\* The callback handed to ipc.connectTo by the catch handler: it emits
\* 'trigger' with state.triggers[webhookId] as it is by then.
TriggerCallback(d) ==
    /\ dispatches[d].cb = "waiting"
    /\ dispatches' = [dispatches EXCEPT ![d].cb = "ran"]
    /\ triggerMsgs' = Append(triggerMsgs,
           [type |-> "trigger", dispatch |-> d,
            webhookId |-> dispatches[d].webhookId,
            payload |-> triggers[dispatches[d].webhookId]])
    /\ UNCHANGED <<triggers, testMode>>
    /\ UNCHANGED otherThanTrigger

\* A collaborator registers (or registers again) the trigger of a workflow.
RegisterTrigger(webhookId) ==
    /\ triggers' = [triggers EXCEPT ![webhookId] = [present |-> TRUE, active |-> TRUE]]
    /\ UNCHANGED <<testMode, dispatches, triggerMsgs>>
    /\ UNCHANGED otherThanTrigger

\* A collaborator removes the trigger of a workflow.
RemoveTrigger(webhookId) ==
    /\ triggers[webhookId].present
    /\ triggers' = [triggers EXCEPT ![webhookId] = NoTrigger]
    /\ UNCHANGED <<testMode, dispatches, triggerMsgs>>
    /\ UNCHANGED otherThanTrigger

\* A collaborator switches test mode on or off.
SetTestMode(mode) ==
    /\ testMode # mode
    /\ testMode' = mode
    /\ UNCHANGED <<triggers, dispatches, triggerMsgs>>
    /\ UNCHANGED otherThanTrigger

\* --------------------------------------------------------------- addLog
NoLog == [time |-> 0, message |-> ""]

LogMessages == {"message"}

\* `${new Date().toISOString()} -  ${message}`
LogLine(time, message) == [time |-> time, message |-> message]

\* Variant of Shift that evicts one entry too late.
ShiftLate(stored) == IF Len(stored) > LogLimit + 1 THEN Tail(stored) ELSE stored

\* if (state.logs.length > 99) state.logs.shift()
Shift(stored) == IF Len(stored) > LogLimit THEN Tail(stored) ELSE stored

\* addLog(message, client); cached: whether client.channels.cache holds
\* state.autoLogsChannelId.  console.log leaves no state behind.
AddLog(message, cached) ==
    /\ logCalls < MaxLogCalls
    /\ logCalls' = logCalls + 1
    /\ logs' = Append(Shift(logs), LogLine(logCalls', message))
    /\ mirrored' = IF ready /\ autoLogs /\ cached
                   THEN LogLine(logCalls', message)
                   ELSE mirrored
    /\ UNCHANGED <<ready, autoLogs>>
    /\ UNCHANGED otherThanLog

\* A collaborator sets state.ready and state.autoLogs.
SetLogFlags(r, a) ==
    /\ <<r, a>> # <<ready, autoLogs>>
    /\ ready' = r
    /\ autoLogs' = a
    /\ UNCHANGED <<logs, logCalls, mirrored>>
    /\ UNCHANGED otherThanLog

\* ---------------------------------------------------- pollingPromptData
PromptMessages == {"p1"}

Event(op, k) == [op |-> op, k |-> k]

\* Variants of DeadlinePassed: one tick early; without the test of seconds.
DeadlinePassedEarly(i, seconds) == seconds # 0 /\ i >= seconds

DeadlineIgnoresZero(i, seconds) == i > seconds

\* seconds && i > seconds
DeadlinePassed(i, seconds) == seconds # 0 /\ i > seconds

\* One run of waiting() up to its first await, its return or its setTimeout;
\* value: whether state.promptData[message.id]?.value is truthy.
Waiting(loop, value) ==
    IF value \/ DeadlinePassed(loop.i, loop.seconds)
    THEN IF ~value
         THEN [loop EXCEPT !.pc = "finalEdit",
                           !.events = Append(@, Event("plain", 0))]
         ELSE [loop EXCEPT !.pc = "done", !.resolved = TRUE,
                           !.events = Append(@, Event("resolve", 0))]
    ELSE IF loop.seconds # 0 /\ ~value
         THEN [loop EXCEPT !.pc = "editing", !.inflight = @ + 1,
                           !.events = Append(@, Event("countdown", loop.seconds - loop.i))]
         ELSE [loop EXCEPT !.i = @ + 1, !.pc = "timer", !.timers = @ + 1]

\* pollingPromptData(message, content, seconds, client): waiting() runs once
\* at the call.
PollingPromptData(message, seconds) ==
    /\ Len(loops) < MaxLoops
    /\ loops' = Append(loops,
           Waiting([message |-> message, seconds |-> seconds, i |-> 1,
                    pc |-> "start", resolved |-> FALSE, ticks |-> 0,
                    inflight |-> 0, timers |-> 0,
                    elapsed |-> 0, cached |-> FALSE, events |-> <<>>],
                   promptValue[message]))
    /\ UNCHANGED <<promptValue, everSet>>
    /\ UNCHANGED otherThanPoll

\* setTimeout(() => waiting(), 1000) fires.
PollTimer(l) ==
    /\ loops[l].timers > 0
    /\ loops[l].ticks < MaxTicks
    /\ loops' = [loops EXCEPT ![l] =
           Waiting([@ EXCEPT !.timers = @ - 1, !.ticks = @ + 1,
                             !.elapsed = @ + PollInterval],
                   promptValue[loops[l].message])]
    /\ UNCHANGED <<promptValue, everSet>>
    /\ UNCHANGED otherThanPoll

\* The countdown edit settles (a failure is swallowed): i++, setTimeout.
CountdownEdited(l) ==
    /\ loops[l].inflight > 0
    /\ loops' = [loops EXCEPT ![l].inflight = @ - 1, ![l].i = @ + 1,
                              ![l].pc = "timer", ![l].timers = @ + 1]
    /\ UNCHANGED <<promptValue, everSet>>
    /\ UNCHANGED otherThanPoll

\* The final edit settles (a failure is swallowed); cached: whether
\* client.channels.cache holds message.channelId.
FinalEdited(l, cached) ==
    /\ loops[l].pc = "finalEdit"
    /\ loops' = [loops EXCEPT ![l] =
           IF cached
           THEN [@ EXCEPT !.pc = "sending", !.cached = TRUE,
                          !.events = Append(@, Event("notice", 0))]
           ELSE [@ EXCEPT !.pc = "done", !.resolved = TRUE,
                          !.events = Append(@, Event("resolve", 0))]]
    /\ UNCHANGED <<promptValue, everSet>>
    /\ UNCHANGED otherThanPoll

\* channel.send('Timeout reached') settles (a failure is swallowed).
NoticeSent(l) ==
    /\ loops[l].pc = "sending"
    /\ loops' = [loops EXCEPT ![l].pc = "done", ![l].resolved = TRUE,
                              ![l].events = Append(@, Event("resolve", 0))]
    /\ UNCHANGED <<promptValue, everSet>>
    /\ UNCHANGED otherThanPoll

\* A responder sets state.promptData[id].value.
SetPromptValue(message) ==
    /\ ~promptValue[message]
    /\ promptValue' = [promptValue EXCEPT ![message] = TRUE]
    /\ everSet' = [everSet EXCEPT ![message] = TRUE]
    /\ UNCHANGED loops
    /\ UNCHANGED otherThanPoll

\* A collaborator clears state.promptData[id].
ClearPromptValue(message) ==
    /\ promptValue[message]
    /\ promptValue' = [promptValue EXCEPT ![message] = FALSE]
    /\ UNCHANGED <<loops, everSet>>
    /\ UNCHANGED otherThanPoll

\* --------------------------------------------------- placeholderLoading
MatchingIds == {"m1"}

\* An edit of the placeholder message: the base text followed by `dots`
\* dots (animated), or the base text alone, not awaited (plain).
Edit(kind, dots) == [kind |-> kind, dots |-> dots]

\* Variant of NextDots: the counter starts again at 1.
NextDotsFromOne(i) == IF i + 1 > 3 THEN 1 ELSE i + 1

\* i++; if (i > 3) i = 0;
NextDots(i) == IF i + 1 > 3 THEN 0 ELSE i + 1

\* Variant of IssueAnimated: the timer is set without awaiting the edit.
IssueUnawaited(inst, dots) ==
    [inst EXCEPT !.i = dots, !.inflight = @ + 1, !.timers = @ + 1,
                 !.edits = Append(@, Edit("animated", dots))]

\* await placeholder.edit(content): the edit is in flight and waiting()
\* is suspended.
IssueAnimated(inst, dots) ==
    [inst EXCEPT !.i = dots, !.inflight = @ + 1,
                 !.edits = Append(@, Edit("animated", dots))]

\* placeholder.edit(txt), not awaited; waiting() is not called again.
IssuePlain(inst) == [inst EXCEPT !.edits = Append(@, Edit("plain", 0))]

\* One run of waiting() up to its await or its return; present: whether
\* state.placeholderMatching[placeholderMatchingId] is truthy.
LoadingWaiting(inst, present) ==
    IF ~present
    THEN IssuePlain([inst EXCEPT !.i = NextDots(inst.i)])
    ELSE IssueAnimated(inst, NextDots(inst.i))

\* Variant of TimerCallback: waiting() is called whatever the entry.
TimerCallbackUnchecked(inst, present) == LoadingWaiting(inst, TRUE)

\* The callback of setTimeout(..., 800).
TimerCallback(inst, present) ==
    IF present THEN LoadingWaiting(inst, present) ELSE IssuePlain(inst)

\* placeholderLoading(placeholder, placeholderMatchingId, txt): the entry is
\* set to placeholder.id and waiting() runs once.
PlaceholderLoading(id) ==
    /\ Len(placeholders) < MaxPlaceholders
    /\ placeholderMatching' = [placeholderMatching EXCEPT ![id] = TRUE]
    /\ placeholders' = Append(placeholders,
           LoadingWaiting([id |-> id, i |-> 0, inflight |-> 0, timers |-> 0,
                           elapsed |-> 0, edits |-> <<>>], TRUE))
    /\ UNCHANGED otherThanLoading

\* The awaited edit settles (a failure is swallowed): setTimeout(..., 800).
AnimatedEdited(l) ==
    /\ placeholders[l].inflight > 0
    /\ placeholders' = [placeholders EXCEPT ![l].inflight = @ - 1,
                                            ![l].timers = @ + 1]
    /\ UNCHANGED placeholderMatching
    /\ UNCHANGED otherThanLoading

\* A timer of the loop fires, 800 ms after it was set.
LoadingTimer(l) ==
    /\ placeholders[l].timers > 0
    /\ \/ Len(placeholders[l].edits) < MaxEdits
       \/ ~placeholderMatching[placeholders[l].id]
    /\ placeholders' = [placeholders EXCEPT ![l] =
           TimerCallback([@ EXCEPT !.timers = @ - 1,
                                   !.elapsed = @ + LoadInterval],
                         placeholderMatching[placeholders[l].id])]
    /\ UNCHANGED placeholderMatching
    /\ UNCHANGED otherThanLoading

\* A collaborator removes state.placeholderMatching[id].
RemoveMatching(id) ==
    /\ placeholderMatching[id]
    /\ placeholderMatching' = [placeholderMatching EXCEPT ![id] = FALSE]
    /\ UNCHANGED placeholders
    /\ UNCHANGED otherThanLoading

\* ------------------------------------------------------ specifications
InitIpc ==
    /\ calls = <<>>
    /\ listeners = <<>>
    /\ emitted = <<>>
    /\ connects = 0
    /\ invoked = <<>>
    /\ now = 0

InitTrigger ==
    /\ triggers = [w \in Webhooks |-> NoTrigger]
    /\ testMode = FALSE
    /\ dispatches = <<>>
    /\ triggerMsgs = <<>>

InitLog ==
    /\ logs = <<>>
    /\ logCalls = 0
    /\ ready = FALSE
    /\ autoLogs = FALSE
    /\ mirrored = NoLog

InitPoll ==
    /\ loops = <<>>
    /\ promptValue = [m \in PromptMessages |-> FALSE]
    /\ everSet = [m \in PromptMessages |-> FALSE]

InitResolvers == resolvers = <<>>

InitLate == lateConnects = {}

InitLoading ==
    /\ placeholders = <<>>
    /\ placeholderMatching = [id \in MatchingIds |-> FALSE]

Init ==
    /\ InitIpc
    /\ InitTrigger
    /\ InitLog
    /\ InitPoll
    /\ InitResolvers
    /\ InitLoading
    /\ InitLate

Next ==
    \/ (\E credentials \in CredentialValues : Connection(credentials))
            /\ UNCHANGED <<resolverVars, lateVars>>
    \/ Execution /\ UNCHANGED <<resolverVars, lateVars>>
    \/ (\E type \in IpcTypes : IpcRequest(type)) /\ UNCHANGED <<resolverVars, lateVars>>
    \/ (\E type \in ListTypes : ListRequest(type)) /\ UNCHANGED <<resolverVars, lateVars>>
    \/ (\E c \in DOMAIN calls : ConnectCallback(c)) /\ UNCHANGED <<resolverVars, lateVars>>
    \/ (\E c \in DOMAIN calls : TimerFire(c)) /\ UNCHANGED <<resolverVars, lateVars>>
    \/ (\E t \in Types : \E data \in DataOf(t) : Deliver(t, data))
            /\ UNCHANGED <<resolverVars, lateVars>>
    \/ Tick /\ UNCHANGED <<resolverVars, lateVars>>

Spec == Init /\ [][Next]_vars

NextResolve ==
    \/ \E fn \in {"getChannels", "getRoles"}, credentials \in LookupResults :
            GetOptions(fn, credentials)
    \/ \E r \in DOMAIN resolvers : NegotiationFailed(r)
    \/ \E r \in DOMAIN resolvers : QueryList(r)
    \/ \E r \in DOMAIN resolvers : QueryDone(r)
    \/ (\E c \in DOMAIN calls : ConnectCallback(c)) /\ UNCHANGED <<resolverVars, lateVars>>
    \/ (\E c \in DOMAIN calls : TimerFire(c)) /\ UNCHANGED <<resolverVars, lateVars>>
    \/ (\E t \in Types : \E data \in RepliesOf(t) : Deliver(t, data))
            /\ UNCHANGED <<resolverVars, lateVars>>
    \/ Tick /\ UNCHANGED <<resolverVars, lateVars>>

SpecResolve == Init /\ [][NextResolve]_vars

\* The connection callback of c, with the note whether the promise of the
\* call was settled when it ran.
LateOrNot(c) ==
    /\ ConnectCallback(c)
    /\ lateConnects' = IF calls[c].status # "pending"
                       THEN lateConnects \cup {c}
                       ELSE lateConnects

\* The calls with a deadline, connection and execution.
NextLate ==
    \/ (\E credentials \in CredentialValues : Connection(credentials))
            /\ UNCHANGED <<resolverVars, lateVars>>
    \/ Execution /\ UNCHANGED <<resolverVars, lateVars>>
    \/ (\E c \in DOMAIN calls : LateOrNot(c)) /\ UNCHANGED resolverVars
    \/ (\E c \in DOMAIN calls : TimerFire(c)) /\ UNCHANGED <<resolverVars, lateVars>>
    \/ (\E t \in Types : \E data \in DataOf(t) : Deliver(t, data))
            /\ UNCHANGED <<resolverVars, lateVars>>
    \/ Tick /\ UNCHANGED <<resolverVars, lateVars>>

SpecLate == Init /\ [][NextLate]_vars

NextTrigger ==
    \/ \E webhookId \in Webhooks : TriggerWorkflow(webhookId)
    \/ \E d \in DOMAIN dispatches : PostSucceeds(d)
    \/ \E d \in DOMAIN dispatches : PostFails(d)
    \/ \E d \in DOMAIN dispatches : TriggerCallback(d)
    \/ \E webhookId \in Webhooks : RegisterTrigger(webhookId)
    \/ \E webhookId \in Webhooks : RemoveTrigger(webhookId)
    \/ \E mode \in BOOLEAN : SetTestMode(mode)

SpecTrigger == Init /\ [][NextTrigger]_vars

NextLog ==
    \/ \E message \in LogMessages, cached \in BOOLEAN : AddLog(message, cached)
    \/ \E r \in BOOLEAN, a \in BOOLEAN : SetLogFlags(r, a)

SpecLog == Init /\ [][NextLog]_vars

NextPoll ==
    \/ \E message \in PromptMessages, seconds \in 0..MaxSeconds :
            PollingPromptData(message, seconds)
    \/ \E l \in DOMAIN loops : PollTimer(l)
    \/ \E l \in DOMAIN loops : CountdownEdited(l)
    \/ \E l \in DOMAIN loops, cached \in BOOLEAN : FinalEdited(l, cached)
    \/ \E l \in DOMAIN loops : NoticeSent(l)
    \/ \E message \in PromptMessages : SetPromptValue(message)
    \/ \E message \in PromptMessages : ClearPromptValue(message)

SpecPoll == Init /\ [][NextPoll]_vars

NextLoading ==
    \/ \E id \in MatchingIds : PlaceholderLoading(id)
    \/ \E l \in DOMAIN placeholders : AnimatedEdited(l)
    \/ \E l \in DOMAIN placeholders : LoadingTimer(l)
    \/ \E id \in MatchingIds : RemoveMatching(id)

SpecLoading == Init /\ [][NextLoading]_vars

\* An awaited edit settles and an armed timer fires in the end.
SpecLoadingFair ==
    /\ SpecLoading
    /\ \A l \in 1..MaxPlaceholders :
           /\ WF_vars(l \in DOMAIN placeholders /\ AnimatedEdited(l))
           /\ WF_vars(l \in DOMAIN placeholders /\ LoadingTimer(l))

\* Both kinds of loop side by side, MaxInstances of them in all.
NextTicks ==
    \/ /\ Len(loops) + Len(placeholders) < MaxInstances
       /\ \E message \in PromptMessages, seconds \in 0..MaxSeconds :
               PollingPromptData(message, seconds)
    \/ /\ Len(loops) + Len(placeholders) < MaxInstances
       /\ \E id \in MatchingIds : PlaceholderLoading(id)
    \/ \E l \in DOMAIN loops : PollTimer(l)
    \/ \E l \in DOMAIN loops : CountdownEdited(l)
    \/ \E l \in DOMAIN loops, cached \in BOOLEAN : FinalEdited(l, cached)
    \/ \E l \in DOMAIN loops : NoticeSent(l)
    \/ \E message \in PromptMessages : SetPromptValue(message)
    \/ \E message \in PromptMessages : ClearPromptValue(message)
    \/ \E l \in DOMAIN placeholders : AnimatedEdited(l)
    \/ \E l \in DOMAIN placeholders : LoadingTimer(l)
    \/ \E id \in MatchingIds : RemoveMatching(id)

SpecTicks == Init /\ [][NextTicks]_vars

\* ------------------------------------------------- claims, channel calls
ConnectionCalls == {c \in DOMAIN calls : calls[c].kind = "connection"}

TimedCalls == {c \in DOMAIN calls : calls[c].kind \in {"connection", "execution"}}

Registered(c) == \E i \in DOMAIN listeners : listeners[i] = c

EmittedBy(c) == \E i \in DOMAIN emitted : emitted[i].call = c

LacksCredentials(c) ==
    \/ ~calls[c].payload.present
    \/ calls[c].payload.clientId = ""
    \/ calls[c].payload.token = ""

\* C1: a connection call whose credentials are absent or lack clientId or
\* token is rejected with 'credentials missing' and does no channel I/O: no
\* connectTo, no emit, no listener, no timer.
C1_CredentialsMissing ==
    /\ \A c \in ConnectionCalls :
          LacksCredentials(c) =>
              /\ calls[c].status = "rejected"
              /\ calls[c].value = "credentials missing"
              /\ calls[c].timer = "none"
              /\ calls[c].cb = "none"
              /\ ~Registered(c)
              /\ ~EmittedBy(c)
    /\ connects = Cardinality({c \in DOMAIN calls :
                      ~(calls[c].kind = "connection" /\ LacksCredentials(c))})

C1_Witness ==
    \E c \in ConnectionCalls :
        /\ calls[c].payload.present
        /\ calls[c].payload.clientId = ""
        /\ calls[c].payload.token # ""
        /\ calls[c].status = "rejected"
        /\ connects = 0
        /\ Len(calls) = MaxCalls

\* A response reaches call c, pending until then, in this step.
Receives(c) ==
    /\ calls[c].status = "pending"
    /\ calls[c].first = NoData
    /\ calls'[c].first # NoData

\* C2: a response delivered to a pending connection call rejects it with
\* 'Invalid credentials' on 'error', 'Already logging in' on 'login',
\* 'Already logging in with different credentials' on 'different', and
\* resolves it with the value unchanged on anything else.
C2_ResponseClassification ==
    [][\A c \in ConnectionCalls :
          Receives(c) =>
              LET data == calls'[c].first
                  after == calls'[c]
              IN  /\ data = "error" =>
                        after.status = "rejected" /\ after.value = "Invalid credentials"
                  /\ data = "login" =>
                        after.status = "rejected" /\ after.value = "Already logging in"
                  /\ data = "different" =>
                        /\ after.status = "rejected"
                        /\ after.value = "Already logging in with different credentials"
                  /\ data \notin {"error", "login", "different"} =>
                        after.status = "resolved" /\ after.value = data]_vars

C2_Witness ==
    \E c, d \in ConnectionCalls :
        /\ calls[c].first = "different"
        /\ calls[c].value = "Already logging in with different credentials"
        /\ calls[d].first = "other"
        /\ calls[d].status = "resolved"
        /\ calls[d].value = "other"

\* C3: a connection or execution call with a timer is rejected with
\* 'timeout' exactly when its deadline, 15000 ms after the call, comes before
\* any response (also when the connection callback never ran); a response
\* that comes first cancels the timer and settles the call, which then never
\* rejects with 'timeout'.
C3_TimeoutRace ==
    \A c \in TimedCalls :
        /\ (calls[c].kind = "connection" /\ ~LacksCredentials(c)) => calls[c].timer # "none"
        /\ calls[c].kind = "execution" => calls[c].timer # "none"
        /\ calls[c].timer = "armed" =>
              /\ calls[c].status = "pending"
              /\ calls[c].first = NoData
              /\ now <= calls[c].start + 15000
        /\ calls[c].timer = "fired" =>
              /\ calls[c].status = "rejected"
              /\ calls[c].value = "timeout"
              /\ now >= calls[c].start + 15000
        /\ calls[c].timer = "cleared" =>
              /\ calls[c].first # NoData
              /\ calls[c].status # "pending"
              /\ ~(calls[c].status = "rejected" /\ calls[c].value = "timeout")
              /\ calls[c].kind = "connection" =>
                    /\ calls[c].status = ConnOutcome(calls[c].first).status
                    /\ calls[c].value = ConnOutcome(calls[c].first).value
              /\ calls[c].kind = "execution" =>
                    calls[c].status = "resolved" /\ calls[c].value = "true"

C3_Witness ==
    \E c, d \in ConnectionCalls :
        /\ calls[c].timer = "fired"
        /\ calls[c].cb = "waiting"
        /\ calls[c].value = "timeout"
        /\ calls[d].timer = "cleared"
        /\ calls[d].status = "resolved"

\* C4: when two calls of the same kind and message type are pending with
\* their listeners registered, the first response of that type settles both
\* with the same payload, the earlier registered listener running first.
C4_SharedResponse ==
    [][\A c, d \in DOMAIN calls :
          (/\ c # d
           /\ calls[c].kind = calls[d].kind
           /\ calls[c].type = calls[d].type
           /\ calls[c].status = "pending" /\ calls[d].status = "pending"
           /\ Registered(c) /\ Registered(d)
           /\ IndexOf(listeners, c) < IndexOf(listeners, d)
           /\ (calls'[c].first # NoData \/ calls'[d].first # NoData))
          =>
          (/\ calls'[c].first # NoData
           /\ calls'[c].first = calls'[d].first
           /\ calls'[c].status # "pending"
           /\ calls'[c].status = calls'[d].status
           /\ calls'[c].value = calls'[d].value
           /\ IndexOf(invoked', c) > 0
           /\ IndexOf(invoked', c) < IndexOf(invoked', d))]_vars

C4_Witness ==
    \E c, d \in ConnectionCalls :
        /\ c # d
        /\ calls[c].first = "ready"
        /\ calls[d].first = "ready"
        /\ calls[c].value = "ready"
        /\ calls[d].value = "ready"
        /\ invoked = <<c, d>>
        /\ listeners = <<c, d>>

\* Every call whose connection callback ran holds exactly one listener, and
\* no other call holds any.
ListenerCount ==
    /\ \A c \in DOMAIN calls :
          Len(SelectSeq(listeners, LAMBDA x : x = c))
              = IF calls[c].cb = "ran" THEN 1 ELSE 0
    /\ \A t \in Types :
          Len(SelectSeq(listeners, LAMBDA x : calls[x].type = t))
              = Cardinality({c \in DOMAIN calls : calls[c].type = t /\ calls[c].cb = "ran"})

\* C5: each channel call registers exactly one listener when its connection
\* callback runs and none is ever removed, not even by a timeout: the
\* listeners of a type number the calls of that type whose callback ran,
\* and the registrations only grow.
C5_ListenersOnlyGrow ==
    [][ListenerCount' /\ IsPrefix(listeners, listeners')]_vars

C5_Witness ==
    \E c \in DOMAIN calls :
        /\ calls[c].timer = "fired"
        /\ calls[c].cb = "ran"
        /\ Registered(c)
        /\ Len(listeners) = MaxCalls

\* ------------------------------------------------ claims, triggerWorkflow
\* The POST of dispatch d fails / succeeds in this step.
FailsNow(d) == dispatches[d].post = "pending" /\ dispatches'[d].post = "failed"

SucceedsNow(d) == dispatches[d].post = "pending" /\ dispatches'[d].post = "ok"

MsgsOf(msgs, d) == SelectSeq(msgs, LAMBDA m : m.dispatch = d)

\* C6: when the POST fails, the trigger of webhookId exists and test mode is
\* off, the trigger is inactive afterwards, the call resolves false and a
\* 'trigger' message is emitted when the connection callback runs; when
\* the POST succeeds the call resolves true, no trigger record changes and
\* no 'trigger' message is emitted, then or later.
C6_FailureDeactivates ==
    [][\A d \in DOMAIN dispatches :
          LET w == dispatches[d].webhookId
          IN  /\ (FailsNow(d) /\ triggers[w].present /\ ~testMode) =>
                    /\ triggers'[w].present
                    /\ triggers'[w].active = FALSE
                    /\ dispatches'[d].result = "false"
                    /\ dispatches'[d].cb = "waiting"
              /\ (dispatches[d].cb = "waiting" /\ dispatches'[d].cb = "ran") =>
                    /\ Len(triggerMsgs') = Len(triggerMsgs) + 1
                    /\ triggerMsgs'[Len(triggerMsgs')].type = "trigger"
                    /\ triggerMsgs'[Len(triggerMsgs')].webhookId = w
              /\ SucceedsNow(d) =>
                    /\ dispatches'[d].result = "true"
                    /\ triggers' = triggers
                    /\ triggerMsgs' = triggerMsgs
              /\ dispatches'[d].post = "ok" =>
                    /\ dispatches'[d].cb = "none"
                    /\ MsgsOf(triggerMsgs', d) = <<>>]_vars

C6_Witness ==
    \E d, e \in DOMAIN dispatches :
        /\ dispatches[d].post = "failed"
        /\ dispatches[d].handled = "deactivated"
        /\ dispatches[d].result = "false"
        /\ dispatches[d].cb = "ran"
        /\ triggers[dispatches[d].webhookId].present
        /\ ~triggers[dispatches[d].webhookId].active
        /\ Len(MsgsOf(triggerMsgs, d)) = 1
        /\ dispatches[e].post = "ok"
        /\ dispatches[e].result = "true"

\* C7: a dispatch whose POST fails while test mode is on, or while no
\* trigger is registered under webhookId, changes no entry of
\* state.triggers, emits no 'trigger' message, then or later, and resolves
\* false; a dispatch that succeeds in test mode changes nothing either.
C7_TestModeFrame ==
    [][\A d \in DOMAIN dispatches :
          LET w == dispatches[d].webhookId
          IN  /\ (FailsNow(d) /\ (testMode \/ ~triggers[w].present)) =>
                    /\ triggers' = triggers
                    /\ triggerMsgs' = triggerMsgs
                    /\ dispatches'[d].result = "false"
                    /\ dispatches'[d].cb = "none"
                    /\ dispatches'[d].handled = "skipped"
              /\ (SucceedsNow(d) /\ testMode) =>
                    /\ triggers' = triggers
                    /\ triggerMsgs' = triggerMsgs
              /\ dispatches'[d].handled = "skipped" =>
                    /\ dispatches'[d].cb = "none"
                    /\ MsgsOf(triggerMsgs', d) = <<>>]_vars

C7_Witness ==
    \E d, e \in DOMAIN dispatches :
        /\ testMode
        /\ dispatches[d].test
        /\ dispatches[d].handled = "skipped"
        /\ dispatches[d].result = "false"
        /\ triggers[dispatches[d].webhookId].present
        /\ triggers[dispatches[d].webhookId].active
        /\ ~dispatches[e].test
        /\ dispatches[e].handled = "skipped"
        /\ ~triggers[dispatches[e].webhookId].present
        /\ triggerMsgs = <<>>

\* ---------------------------------------------- claims, pollingPromptData
\* The countdown edits of ticks 0 .. n - 1 of a loop of `seconds`.
Countdowns(seconds, n) == [k \in 1..n |-> Event("countdown", seconds - k)]

TimedOut(l) == <<Event("plain", 0), Event("notice", 0), Event("resolve", 0)>>

\* The loops with a deadline whose value was never set.
Unanswered == {l \in DOMAIN loops : loops[l].seconds > 0 /\ ~everSet[loops[l].message]}

\* The course of a loop of seconds = N > 0 whose value is never set, up to
\* the final edit: N timers of 1000 ms, a countdown edit at each tick but
\* the last, the edit to the plain content at the last, no timer after it.
CountdownCourse(l) ==
    LET N == loops[l].seconds
        t == loops[l].ticks
    IN  /\ t <= N
        /\ loops[l].elapsed = t * 1000
        /\ loops[l].resolved = (loops[l].pc = "done")
        /\ t < N =>
              /\ loops[l].pc \in {"editing", "timer"}
              /\ loops[l].events = Countdowns(N, t + 1)
              /\ loops[l].i = IF loops[l].pc = "editing" THEN t + 1 ELSE t + 2
        /\ t = N =>
              /\ loops[l].pc \in {"finalEdit", "sending", "done"}
              /\ loops[l].pc = "finalEdit" =>
                    loops[l].events = Countdowns(N, N) \o <<Event("plain", 0)>>
              /\ loops[l].pc = "sending" =>
                    loops[l].events = Countdowns(N, N)
                        \o <<Event("plain", 0), Event("notice", 0)>>

\* C8 as stated: the loop of seconds = N > 0 whose value is never set stops
\* after N ticks, edits the message to the plain content, then sends the
\* 'Timeout reached' notice, then resolves true and arms no further timer.
C8_TimeoutAlwaysNotifies ==
    \A l \in Unanswered :
        /\ CountdownCourse(l)
        /\ loops[l].pc = "done" =>
              loops[l].events = Countdowns(loops[l].seconds, loops[l].seconds) \o TimedOut(l)

\* C8, amended: as C8, but the 'Timeout reached' notice is sent only when
\* the client's channel cache holds the channel of the message; otherwise
\* the loop resolves true right after the edit to the plain content.
C8_TimeoutNotifiesCached ==
    \A l \in Unanswered :
        /\ CountdownCourse(l)
        /\ loops[l].pc = "done" =>
              loops[l].events = Countdowns(loops[l].seconds, loops[l].seconds)
                  \o (IF loops[l].cached
                      THEN TimedOut(l)
                      ELSE <<Event("plain", 0), Event("resolve", 0)>>)

C8_Witness ==
    \E l \in Unanswered :
        /\ loops[l].seconds = 3
        /\ loops[l].ticks = 3
        /\ loops[l].elapsed = 3000
        /\ loops[l].pc = "done"
        /\ loops[l].resolved
        /\ loops[l].cached
        /\ Len(loops[l].events) = 6

\* What a tick of a loop without deadline does, from `before` to `after`,
\* with the value set or not.
PlainTick(before, after, value) ==
    IF value
    THEN /\ after.resolved
         /\ after.pc = "done"
         /\ after.events = Append(before.events, Event("resolve", 0))
    ELSE /\ ~after.resolved
         /\ after.pc = "timer"
         /\ after.events = before.events

\* C9: a loop of seconds = 0 issues no edit and no notice, is not resolved
\* at a tick at which the value is unset and arms the next timer; at the
\* first tick at which the value is set it resolves true and stops.
C9_NoDeadline ==
    [][\A l \in DOMAIN loops' :
          loops'[l].seconds = 0 =>
              /\ \A i \in DOMAIN loops'[l].events : loops'[l].events[i].op = "resolve"
              /\ IF l \in DOMAIN loops
                 THEN /\ loops'[l].ticks = loops[l].ticks + 1 =>
                            PlainTick(loops[l], loops'[l], promptValue[loops[l].message])
                      /\ loops'[l].ticks = loops[l].ticks =>
                            /\ loops'[l].resolved = loops[l].resolved
                            /\ loops'[l].pc = loops[l].pc
                 ELSE PlainTick([events |-> <<>>], loops'[l],
                                promptValue[loops'[l].message])]_vars

C9_Witness ==
    \E l \in DOMAIN loops :
        /\ loops[l].seconds = 0
        /\ loops[l].ticks = MaxTicks
        /\ loops[l].resolved
        /\ loops[l].events = <<Event("resolve", 0)>>

\* ----------------------------------------------------------- claims, addLog
\* C10: state.logs never holds more than 100 entries; it holds the entries
\* of the latest calls, at most 100 of them, in call order, the newest
\* last: a call evicts the oldest entry, and only it, when 100 are stored.
C10_LogsBounded ==
    /\ Len(logs) <= 100
    /\ Len(logs) = Min(logCalls, 100)
    /\ \A i \in DOMAIN logs : logs[i].time = logCalls - Len(logs) + i

C10_Witness ==
    /\ logCalls = 101
    /\ Len(logs) = 100
    /\ logs[1].time = 2
    /\ logs[100].time = 101


\* ------------------------------------------------------------------ C11
\* The reply of a list query is a failure for the resolver `fn`: nothing
\* came (the 5000 ms timer gave ''), it is falsy, no array, an empty array,
\* or, for getRoles, an array of nothing but '@everyone'.
QueryFailed(fn, data) ==
    \/ ~Truthy(data)
    \/ ~IsArray(data)
    \/ Items(data) = <<>>
    \/ fn = "getRoles" /\ \A i \in DOMAIN Items(data) : Items(data)[i] = "@everyone"

IsPlaceholder(result) == Len(result) = 1 /\ result[1].value = "false"

\* The resolver is not stuck: what it awaits has settled, or will, its timer
\* being armed.
Returns(R) ==
    \/ R.pc = "done"
    \/ /\ R.pc = "negotiating"
       /\ calls[R.conn].status = "pending" => calls[R.conn].timer = "armed"
    \/ /\ R.pc = "querying"
       /\ calls[R.query].status = "pending" => calls[R.query].timer = "armed"

\* C11: getChannels and getRoles always return a non-empty option list:
\* every failure of the credential lookup, of the negotiation or of the list
\* query gives one placeholder option of value 'false'; the list query is
\* made only after the negotiation returned 'ready' or 'already'; getRoles
\* returns no role named '@everyone', and the 'no roles' placeholder when
\* all roles are filtered out.
C11_OptionsAlwaysReturned ==
    /\ \A r \in DOMAIN resolvers :
        LET R == resolvers[r] IN
        /\ Returns(R)
        /\ R.pc = "done" => Len(R.result) >= 1
        /\ R.query # 0 =>
               /\ calls[R.conn].status = "resolved"
               /\ calls[R.conn].value \in {"ready", "already"}
               /\ calls[R.query].type = ListTypeOf(R.fn)
        /\ R.pc = "done" /\ R.query = 0 =>
               /\ calls[R.conn].value \notin {"ready", "already"}
               /\ IsPlaceholder(R.result)
        /\ R.pc = "done" /\ R.query # 0 =>
               IF QueryFailed(R.fn, calls[R.query].value)
               THEN IsPlaceholder(R.result)
               ELSE \A i \in DOMAIN R.result : R.result[i].value # "false"
        /\ R.fn = "getRoles" =>
               /\ \A i \in DOMAIN R.result : R.result[i].name # "@everyone"
               /\ R.pc = "done" /\ R.query # 0
                     /\ calls[R.query].value \in {"[@everyone]"} =>
                       R.result = Placeholder(
                         "Your Discord server has no roles, please add at least one if you want to restrict the trigger to specific users"
                         \o EndMessage)
    /\ \A c \in DOMAIN calls :
           calls[c].kind = "listQuery" =>
               \E r \in DOMAIN resolvers : resolvers[r].query = c

\* getRoles, its negotiation having returned 'ready' or 'already', got a
\* reply of nothing but '@everyone' and has returned one placeholder.
C11_Witness ==
    \E r \in DOMAIN resolvers :
        /\ resolvers[r].fn = "getRoles"
        /\ resolvers[r].pc = "done"
        /\ resolvers[r].query # 0
        /\ calls[resolvers[r].query].value = "[@everyone]"
        /\ IsPlaceholder(resolvers[r].result)

\* ------------------------------------------------------------------ C12
\* What a pollingPromptData loop has under way: countdown edits in flight,
\* timers armed, and a last tick suspended at its plain edit or its notice.
PollUnderWay(l) ==
    loops[l].inflight + loops[l].timers
        + (IF loops[l].pc \in {"finalEdit", "sending"} THEN 1 ELSE 0)

\* What a placeholderLoading loop has under way: animated edits in flight
\* and timers armed.
LoadingUnderWay(l) == placeholders[l].inflight + placeholders[l].timers

\* C12: one loop of pollingPromptData or placeholderLoading has at any time
\* at most one thing under way, a tick suspended at its edit or a timer
\* armed for the next tick: never two edits in flight, two timers, or a
\* timer armed while the edit of the current tick has not settled.
C12_TicksSequential ==
    /\ \A l \in DOMAIN loops :
           /\ PollUnderWay(l) <= 1
           /\ loops[l].pc = "done" => PollUnderWay(l) = 0
    /\ \A l \in DOMAIN placeholders : LoadingUnderWay(l) <= 1

\* Two loops interleave: a polling loop is at its second countdown edit
\* while a loading loop, two edits issued, has its timer armed.
C12_Witness ==
    \E l \in DOMAIN loops, p \in DOMAIN placeholders :
        /\ loops[l].inflight = 1
        /\ Len(loops[l].events) >= 2
        /\ placeholders[p].timers = 1
        /\ Len(placeholders[p].edits) >= 2

\* ------------------------------------------------------------------ C13
\* The loop l issues the operation `op` in this step.
IssuesNow(l, op) ==
    /\ \E n \in DOMAIN loops'[l].events : loops'[l].events[n].op = op
    /\ l \in DOMAIN loops =>
           \A n \in DOMAIN loops[l].events : loops[l].events[n].op # op

\* The loop l runs a tick in this step: the first one at the call, or a
\* later one from its timer.
TicksNow(l) == l \notin DOMAIN loops \/ loops'[l].ticks > loops[l].ticks

\* C13: pollingPromptData sends the 'Timeout reached' notice only when no
\* value was ever set in promptData[message.id] until then, also not while
\* an edit of the loop was in flight; and a tick that finds the value set
\* resolves the loop at that tick.
C13_NoNoticeOnceValueSet ==
    [][\A l \in DOMAIN loops' :
          /\ IssuesNow(l, "notice") => ~everSet[loops'[l].message]
          /\ TicksNow(l) /\ promptValue[loops'[l].message] => loops'[l].resolved
      ]_vars

\* ------------------------------------------------------------------ C14
PlainEdits(inst) == SelectSeq(inst.edits, LAMBDA ed : ed.kind = "plain")

\* The loop has issued its final edit.
Finished(inst) == PlainEdits(inst) # <<>>

\* At most one plain edit, the last edit issued, with nothing under way
\* after it; before it the loop always has its edit or its timer under
\* way; the n-th edit is issued n - 1 intervals of 800 ms after the call
\* (the time the edits take to settle left aside).
LoadingCourse(l) ==
    LET inst == placeholders[l]
    IN  /\ Len(PlainEdits(inst)) <= 1
        /\ Finished(inst) =>
               /\ inst.edits[Len(inst.edits)].kind = "plain"
               /\ LoadingUnderWay(l) = 0
        /\ ~Finished(inst) => LoadingUnderWay(l) = 1
        /\ inst.elapsed = LoadInterval * (Len(inst.edits) - 1)

\* A timer of the loop l fires in this step.
TimerFiresNow(l) ==
    l \in DOMAIN placeholders /\ placeholders'[l].elapsed > placeholders[l].elapsed

\* What a firing timer does: with the entry present an animated edit, with
\* the entry removed the final edit and no further timer.
LoadingStep(l) ==
    /\ TimerFiresNow(l) /\ placeholderMatching[placeholders[l].id] =>
           /\ ~Finished(placeholders'[l])
           /\ placeholders'[l].inflight = 1
    /\ TimerFiresNow(l) /\ ~placeholderMatching[placeholders[l].id] =>
           /\ Finished(placeholders'[l])
           /\ placeholders'[l].timers = 0
    /\ l \in DOMAIN placeholders /\ Finished(placeholders[l]) =>
           placeholders'[l] = placeholders[l]

\* C14: a placeholderLoading loop whose entry of placeholderMatching is
\* removed issues, once the edit in flight has settled and the timer has
\* fired, one final plain edit, after which it arms no timer and issues no
\* edit; while the entry is present each timer starts the next animated
\* edit and no final edit is issued.
C14_FinalEditOnceRemoved ==
    /\ [](\A l \in DOMAIN placeholders : LoadingCourse(l))
    /\ [][\A l \in DOMAIN placeholders' : LoadingStep(l)]_vars
    /\ \A l \in 1..MaxPlaceholders :
           (l \in DOMAIN placeholders /\ ~placeholderMatching[placeholders[l].id])
               ~> (/\ l \in DOMAIN placeholders
                   /\ \/ placeholderMatching[placeholders[l].id]
                      \/ Finished(placeholders[l]))

\* A loop has issued animated edits, its entry is removed and it has
\* finished with the plain edit.
C14_Witness ==
    \E l \in DOMAIN placeholders :
        /\ ~placeholderMatching[placeholders[l].id]
        /\ Len(placeholders[l].edits) >= 3
        /\ Finished(placeholders[l])
        /\ placeholders[l].edits[Len(placeholders[l].edits)] = Edit("plain", 0)

\* ------------------------------------------------------------------ C15
\* C15: every 'trigger' message emitted after a failed delivery carries the
\* deactivated record of its webhookId, a record with active = false,
\* whatever was done to state.triggers between the failure and the emission.
C15_TriggerMessageDeactivated ==
    \A n \in DOMAIN triggerMsgs :
        /\ triggerMsgs[n].payload.present
        /\ triggerMsgs[n].payload.active = FALSE

\* ------------------------------------------------------------------ C16
\* A step of triggerWorkflow: every step of it moves its dispatch on, and
\* no collaborator touches the dispatches.
CoreStep == dispatches' # dispatches

\* C16: a step of the core changes state.triggers only by turning the
\* active flag of one present record from true to false, in the failure of
\* a dispatch for that webhookId outside test mode; it never sets active
\* to true, changes the record of another webhookId, or adds or removes an
\* entry.
C16_OnlyFailureDeactivates ==
    [][CoreStep =>
          \A w \in Webhooks :
              triggers'[w] # triggers[w] =>
                  /\ triggers[w] = [present |-> TRUE, active |-> TRUE]
                  /\ triggers'[w] = [present |-> TRUE, active |-> FALSE]
                  /\ ~testMode
                  /\ \E d \in DOMAIN dispatches :
                         FailsNow(d) /\ dispatches[d].webhookId = w
      ]_vars

\* A failed dispatch has deactivated one trigger while the trigger of the
\* other webhookId is still registered and active.
C16_Witness ==
    \E d \in DOMAIN dispatches : \E w \in Webhooks :
        /\ dispatches[d].handled = "deactivated"
        /\ triggers[dispatches[d].webhookId] = [present |-> TRUE, active |-> FALSE]
        /\ w # dispatches[d].webhookId
        /\ triggers[w] = [present |-> TRUE, active |-> TRUE]

\* ------------------------------------------------------------------ C17
\* The dispatch d is made in this step: its POST is sent.
PostsNow(d) == d \notin DOMAIN dispatches

\* C17: a trigger whose record has active = false is not executed: no call
\* of triggerWorkflow sends the POST for a webhookId while the active flag
\* of its record is false.
C17_InactiveNeverPosted ==
    [][\A d \in DOMAIN dispatches' :
          LET w == dispatches'[d].webhookId
          IN  PostsNow(d) /\ triggers[w].present => triggers[w].active
      ]_vars

\* ------------------------------------------------------------------ C18
\* The animated edits of a loop, in the order they were issued.
AnimatedEdits(l) == SelectSeq(placeholders[l].edits, LAMBDA ed : ed.kind = "animated")

\* C18 as stated: every animated edit shows the base text followed by k
\* dots, 1 <= k <= 3, k going 1, 2, 3, 1, 2, 3, ... over successive ticks.
C18_DotsOneToThree ==
    \A l \in DOMAIN placeholders :
        \A n \in DOMAIN AnimatedEdits(l) :
            /\ AnimatedEdits(l)[n].dots \in 1..3
            /\ AnimatedEdits(l)[n].dots = ((n - 1) % 3) + 1

\* C18, amended: every animated edit shows the base text followed by k
\* dots, 0 <= k <= 3, k going 1, 2, 3, 0, 1, 2, 3, 0, ... over successive
\* ticks: every fourth animated edit shows the base text without dots.
C18_DotsZeroToThree ==
    \A l \in DOMAIN placeholders :
        \A n \in DOMAIN AnimatedEdits(l) :
            /\ AnimatedEdits(l)[n].dots \in 0..3
            /\ AnimatedEdits(l)[n].dots = n % 4

\* A loop has gone once round: its fourth animated edit shows no dot, its
\* fifth one dot.
C18_Witness ==
    \E l \in DOMAIN placeholders :
        /\ Len(AnimatedEdits(l)) >= 5
        /\ AnimatedEdits(l)[3].dots = 3
        /\ AnimatedEdits(l)[4].dots = 0
        /\ AnimatedEdits(l)[5].dots = 1

\* ------------------------------------------------------------------ C19
\* The countdown edits of a loop, in the order they were issued: the n-th
\* is issued at the n-th tick, n - 1 intervals of 1000 ms after the call.
CountdownEdits(l) == SelectSeq(loops[l].events, LAMBDA ev : ev.op = "countdown")

\* C19: in a loop of seconds = N > 0 whose value is never set, the suffix
\* '(Ks)' written at a tick shows the number of intervals of 1000 ms still
\* to elapse until the loop times out, N - (n - 1) at the n-th tick; K goes
\* down by one per tick, is never negative, and no countdown edit is issued
\* at or after the tick that ends the loop.
C19_SuffixIsTimeRemaining ==
    \A l \in Unanswered :
        /\ \A n \in DOMAIN CountdownEdits(l) :
               /\ CountdownEdits(l)[n].k = loops[l].seconds - (n - 1)
               /\ CountdownEdits(l)[n].k >= 0
               /\ n > 1 => CountdownEdits(l)[n].k = CountdownEdits(l)[n - 1].k - 1
        /\ Len(CountdownEdits(l)) <= loops[l].seconds
        /\ \A n \in DOMAIN loops[l].events :
               loops[l].events[n].op = "countdown" => n <= loops[l].seconds

\* ------------------------------------------------------------------ C20
\* The call c is made in this step.
CalledNow(c) == c \notin DOMAIN calls

\* The timer of c fires in this step.
TimesOutNow(c) ==
    c \in DOMAIN calls /\ calls[c].timer = "armed" /\ calls'[c].timer = "fired"

\* The connection callback of c runs in this step.
ConnectsNow(c) ==
    c \in DOMAIN calls /\ calls[c].cb = "waiting" /\ calls'[c].cb = "ran"

\* C20: the timer of a connection or execution call is set at the call,
\* for 15000 ms from then, before the channel is connected; its firing
\* rejects the call with 'timeout' and cancels nothing: the connection
\* callback, whenever it runs, emits the payload of the call and registers
\* its listener, and what that listener receives leaves the outcome of a
\* settled call as it is.
C20_DeadlineFromCall ==
    [][\A c \in DOMAIN calls' :
          calls'[c].kind \in {"connection", "execution"} =>
              /\ CalledNow(c) /\ calls'[c].status = "pending" =>
                     /\ calls'[c].timer = "armed"
                     /\ calls'[c].deadline = now + 15000
                     /\ calls'[c].cb = "waiting"
              /\ TimesOutNow(c) =>
                     /\ now >= calls[c].start + 15000
                     /\ calls'[c].status = "rejected"
                     /\ calls'[c].value = "timeout"
                     /\ calls'[c].cb = calls[c].cb
                     /\ listeners' = listeners
                     /\ emitted' = emitted
              /\ ConnectsNow(c) =>
                     /\ emitted' = Append(emitted,
                            [type |-> calls[c].type, call |-> c,
                             payload |-> calls[c].payload])
                     /\ listeners' = Append(listeners, c)
                     /\ calls'[c].status = calls[c].status
              /\ c \in DOMAIN calls /\ calls[c].status # "pending" =>
                     /\ calls'[c].status = calls[c].status
                     /\ calls'[c].value = calls[c].value
      ]_vars

\* A call timed out before the channel connected; its callback then ran,
\* emitted and registered, and its listener has received a response: the
\* call is still rejected with 'timeout'.
C20_Witness ==
    \E c \in TimedCalls :
        /\ calls[c].timer = "fired"
        /\ calls[c].cb = "ran"
        /\ c \in lateConnects
        /\ EmittedBy(c)
        /\ Registered(c)
        /\ calls[c].first # NoData
        /\ calls[c].status = "rejected"
        /\ calls[c].value = "timeout"

====
